---- MODULE Spec2Model ----
(***************************************************************************)
(* Model of the sawzall extension: the html_to_plain text extraction       *)
(* (src/ext/sawzall/src/html_to_plain.rs) and the mutex-guarded Document / *)
(* Element handles that call it (src/ext/sawzall/src/lib.rs).              *)
(*                                                                         *)
(* Strings are sequences of one-character strings, so that trimming,       *)
(* pushing and repeating are computed rather than assumed.                 *)
(***************************************************************************)
EXTENDS Integers, Sequences, FiniteSets

VARIABLES
    html,       \* the Html behind Arc<Mutex<Html>>: its node tree
    document,   \* "parsing" until Document::new has wrapped html, then "shared"
    mutex,      \* the Mutex: NoOwner, or the thread holding the guard
    pc,         \* per thread: where the thread is in its method call
    method,     \* per thread: the Ruby method being executed
    id,         \* per thread: Element.id of the receiver (NodeId)
    item_iter,  \* per thread: html_to_plain's peekable iterator (items left)
    max,        \* per thread: html_to_plain's local `max`
    output,     \* per thread: html_to_plain's local `output`
    result      \* per thread: the value the method returned

vars == <<html, document, mutex, pc, method, id, item_iter, max, output, result>>

(***************************************************************************)
(* Bounds of the model.                                                    *)
(***************************************************************************)
\* Largest number of nodes of an exhaustively enumerated tree.
MaxNodes == 4
\* Largest number of blocks under the <html> root of a fragment.
MaxSiblings == 3
\* The same, for the documents that several threads share.
MaxSharedBlocks == 1
\* Largest number of nodes of a tree in the specification with fairness.
MaxFairNodes == 3

(***************************************************************************)
(* Characters and strings.                                                 *)
(***************************************************************************)
NL == "\n"

\* char::is_whitespace, on the characters the model uses
IsWhitespace(c) == c \in {" ", "\n", "\t"}

RECURSIVE TrimStart(_)
TrimStart(s) ==
    IF s # <<>> /\ IsWhitespace(Head(s)) THEN TrimStart(Tail(s)) ELSE s

RECURSIVE TrimEnd(_)
TrimEnd(s) ==
    IF s # <<>> /\ IsWhitespace(s[Len(s)])
    THEN TrimEnd(SubSeq(s, 1, Len(s) - 1))
    ELSE s

\* str::trim
Trim(s) == TrimEnd(TrimStart(s))

\* "\n".repeat(n)
Repeat(c, n) == [i \in 1..n |-> c]

\* mutant of Max2: the counts of a run are added up
Max2Sum(a, b) == a + b

\* usize::max
Max2(a, b) == IF a >= b THEN a ELSE b

(***************************************************************************)
(* Block-level elements.                                                   *)
(***************************************************************************)
BLOCK_LEVEL_ELEMENTS ==
    << "address", "article", "aside", "blockquote", "dd", "details",
       "dialog", "div", "dl", "dt", "fieldset", "figcaption", "figure",
       "footer", "form", "h1", "h2", "h3", "h4", "h5", "h6", "header",
       "hgroup", "hr", "li", "main", "nav", "ol", "p", "pre", "section",
       "table", "ul" >>

BLOCK_LEVEL_ELEMENTS_SET ==
    {BLOCK_LEVEL_ELEMENTS[i] : i \in DOMAIN BLOCK_LEVEL_ELEMENTS}

is_block_element(name) == name \in BLOCK_LEVEL_ELEMENTS_SET

(***************************************************************************)
(* The node tree. A tree is a sequence of nodes in document order; node 1  *)
(* is the root element and every other node names its parent.              *)
(***************************************************************************)
ElementNode(name) == [type |-> "Element", name |-> name, text |-> <<>>]
TextNode(text)    == [type |-> "Text",    name |-> "",   text |-> text]
CommentNode       == [type |-> "Comment", name |-> "",   text |-> <<>>]

Node(value, parent) == [value |-> value, parent |-> parent]

\* ego_tree children(): the children of node i, in document order
RECURSIVE ChildrenFrom(_, _, _)
ChildrenFrom(tree, i, j) ==
    IF j > Len(tree) THEN <<>>
    ELSE (IF tree[j].parent = i THEN <<j>> ELSE <<>>)
         \o ChildrenFrom(tree, i, j + 1)

Children(tree, i) == ChildrenFrom(tree, i, i + 1)

Open(n)  == [edge |-> "Open",  node |-> n]
Close(n) == [edge |-> "Close", node |-> n]

\* ego_tree traverse(): Open(node), the traversals of its children, Close(node)
RECURSIVE Traverse(_, _)
RECURSIVE TraverseAll(_, _)
Traverse(tree, i) ==
    <<Open(i)>> \o TraverseAll(tree, Children(tree, i)) \o <<Close(i)>>
TraverseAll(tree, is) ==
    IF is = <<>> THEN <<>>
    ELSE Traverse(tree, Head(is)) \o TraverseAll(tree, Tail(is))

(***************************************************************************)
(* html_to_plain: classification of the traversal edges into items.        *)
(***************************************************************************)
\* mutant of TextItem: the text is trimmed
TextItemTrimmed(text) == [kind |-> "Text", text |-> Trim(text), count |-> 0]

TextItem(text)  == [kind |-> "Text",     text |-> text, count |-> 0]
Newlines(count) == [kind |-> "Newlines", text |-> <<>>, count |-> count]
\* Option::None of the filter_map closure and of next()/peek()
None            == [kind |-> "None",     text |-> <<>>, count |-> 0]

\* mutant of OpenElement: the "br" arm is missing
OpenElementNoBr(name) ==
    IF name = "p" THEN Newlines(2)
    ELSE IF is_block_element(name) THEN Newlines(1)
    ELSE None

\* the match on an element's name under Edge::Open
OpenElement(name) ==
    IF name = "br" THEN Newlines(1)
    ELSE IF name = "p" THEN Newlines(2)
    ELSE IF is_block_element(name) THEN Newlines(1)
    ELSE None

\* mutant of CloseElement: every element breaks the line when it closes
CloseElementAlways(name) ==
    IF name = "p" THEN Newlines(2) ELSE Newlines(1)

\* the match on an element's name under Edge::Close
CloseElement(name) ==
    IF name = "p" THEN Newlines(2)
    ELSE IF is_block_element(name) THEN Newlines(1)
    ELSE None

\* mutant of KeepsText: only the empty text is dropped
KeepsTextUntrimmed(text) == text # <<>>

\* the guard of the Node::Text arm
KeepsText(text) == Trim(text) # <<>>

\* mutant of Classify: a text node gives its item on both of its edges
ClassifyTextTwice(edge, value) ==
    IF value.type = "Text"
    THEN IF KeepsText(value.text) THEN TextItem(value.text) ELSE None
    ELSE IF value.type = "Element"
    THEN IF edge = "Open" THEN OpenElement(value.name) ELSE CloseElement(value.name)
    ELSE None

\* the filter_map closure: the item of one edge, or None
Classify(edge, value) ==
    IF edge = "Open"
    THEN IF value.type = "Text" /\ KeepsText(value.text) THEN TextItem(value.text)
         ELSE IF value.type = "Element" THEN OpenElement(value.name)
         ELSE None
    ELSE IF value.type = "Element" THEN CloseElement(value.name)
         ELSE None

\* filter_map over a sequence of edges
RECURSIVE FilterMap(_, _)
FilterMap(tree, edges) ==
    IF edges = <<>> THEN <<>>
    ELSE LET e  == Head(edges)
             it == Classify(e.edge, tree[e.node].value)
         IN  (IF it = None THEN <<>> ELSE <<it>>) \o FilterMap(tree, Tail(edges))

\* element.traverse().filter_map(..).peekable(): the items still to come
ItemIter(tree, i) == FilterMap(tree, Traverse(tree, i))

\* Peekable::peek
Peek(iter) == IF iter = <<>> THEN None ELSE Head(iter)

(***************************************************************************)
(* html_to_plain: the fold. A frame holds the locals of one call; `at` is  *)
(* "loop" at the head of the outer while, "merge" at the head of the inner *)
(* while, and "end" once the outer while has seen None.                    *)
(***************************************************************************)
Frame(at, iter, mx, out) ==
    [at |-> at, item_iter |-> iter, max |-> mx, output |-> out]

\* the locals right before the outer while
EnterFold(tree, i) == Frame("loop", ItemIter(tree, i), 0, <<>>)

\* mutants of EmitsNewlines: one of the two boundary tests is missing
EmitsNewlinesAtStart(out, iter) == ~(Peek(iter) = None)
EmitsNewlinesAtEnd(out, iter) == ~(out = <<>>)

\* `if !(output.is_empty() || item_iter.peek().is_none())`
EmitsNewlines(out, iter) == ~(out = <<>> \/ Peek(iter) = None)

\* one evaluation of `while let Some(item) = item_iter.next()` and its match
OuterStep(f) ==
    IF f.item_iter = <<>>
    THEN Frame("end", <<>>, f.max, f.output)
    ELSE LET item == Head(f.item_iter)
             rest == Tail(f.item_iter)
         IN  IF item.kind = "Text"
             THEN Frame("loop", rest, f.max, f.output \o item.text)
             ELSE Frame("merge", rest, item.count, f.output)

\* mutant of InnerStep: the inner while is missing, every Break is flushed
InnerStepUnmerged(f) ==
    Frame("loop", f.item_iter, 0,
          IF EmitsNewlines(f.output, f.item_iter)
          THEN f.output \o Repeat(NL, f.max)
          ELSE f.output)

\* mutant of InnerStep: the inner while does not call item_iter.next()
InnerStepStuck(f) ==
    IF Peek(f.item_iter).kind = "Newlines"
    THEN Frame("merge", f.item_iter,
               Max2(f.max, Head(f.item_iter).count), f.output)
    ELSE Frame("loop", f.item_iter, 0,
               IF EmitsNewlines(f.output, f.item_iter)
               THEN f.output \o Repeat(NL, f.max)
               ELSE f.output)

\* one evaluation of `while let Some(Item::Newlines(next_count)) = peek()`,
\* and, when it fails, the boundary test that follows the inner while
InnerStep(f) ==
    IF Peek(f.item_iter).kind = "Newlines"
    THEN Frame("merge", Tail(f.item_iter),
               Max2(f.max, Head(f.item_iter).count), f.output)
    ELSE Frame("loop", f.item_iter, 0,
               IF EmitsNewlines(f.output, f.item_iter)
               THEN f.output \o Repeat(NL, f.max)
               ELSE f.output)

FoldStep(f) == IF f.at = "merge" THEN InnerStep(f) ELSE OuterStep(f)

RECURSIVE RunFold(_)
RunFold(f) == IF f.at = "end" THEN f.output ELSE RunFold(FoldStep(f))

\* html_to_plain as a function of the element it is given
html_to_plain(tree, i) == RunFold(EnterFold(tree, i))

(***************************************************************************)
(* The documents the parser hands over. Element names, texts and shapes    *)
(* are drawn from small sets; `br` is a void element and text and comment  *)
(* nodes are leaves, so only the other elements get children.              *)
(***************************************************************************)
NonWsTexts == { <<"a">>, <<" ", "b", "\n">> }
WsTexts    == { <<" ", "\n">>, <<>> }
Texts      == NonWsTexts \cup WsTexts

ParentNames == {"p", "div", "em"}
LeafValues  == {ElementNode("br"), CommentNode} \cup {TextNode(t) : t \in Texts}
NodeValues  == {ElementNode(n) : n \in ParentNames} \cup LeafValues

CanHaveChildren(value) == value.type = "Element" /\ value.name # "br"

RECURSIVE AncestorsOrSelf(_, _)
AncestorsOrSelf(tree, i) ==
    IF i = 0 THEN {} ELSE {i} \cup AncestorsOrSelf(tree, tree[i].parent)

\* the open elements of the tree builder: where the next node may go
OpenElements(tree) ==
    {a \in AncestorsOrSelf(tree, Len(tree)) : CanHaveChildren(tree[a].value)}

RootNames == ParentNames \cup {"br", "html"}

\* a child of the root: a text wrapped in <p> or <h1>, a bare text, or a <br>
Blocks ==
    {[wrap |-> w, leaf |-> TextNode(t)] : w \in {"p", "h1"}, t \in NonWsTexts}
    \cup {[wrap |-> "", leaf |-> v] :
            v \in {TextNode(t) : t \in Texts} \cup {ElementNode("br")}}

AppendBlock(tree, b) ==
    IF b.wrap = ""
    THEN Append(tree, Node(b.leaf, 1))
    ELSE tree \o <<Node(ElementNode(b.wrap), 1), Node(b.leaf, Len(tree) + 1)>>

ElementIds(tree) == {i \in DOMAIN tree : tree[i].value.type = "Element"}

(***************************************************************************)
(* Threads calling the Ruby methods of Document and Element.               *)
(***************************************************************************)
Threads == {"t1", "t2"}
NoOwner == "none"

DocumentMethods == {"Document#select", "Document#root_element"}
ElementMethods  ==
    { "Element#name", "Element#html", "Element#inner_html", "Element#attr",
      "Element#attrs", "Element#select", "Element#child_elements",
      "Element#text", "Element#has_class?", "Element#classes" }
Methods == DocumentMethods \cup ElementMethods

NoResult == [tag |-> "none", value |-> <<>>]
Ok(v)    == [tag |-> "ok",   value |-> v]
Err      == [tag |-> "err",  value |-> <<>>]

RootId == 1

\* the ids below node i, in document order (self excluded)
RECURSIVE DescendantsFrom(_, _, _)
DescendantsFrom(tree, i, j) ==
    IF j > Len(tree) THEN <<>>
    ELSE (IF i \in AncestorsOrSelf(tree, tree[j].parent) THEN <<j>> ELSE <<>>)
         \o DescendantsFrom(tree, i, j + 1)

IsElementId(tree, j) == tree[j].value.type = "Element"

\* select(): Err when the selector does not parse, else the handles of the
\* descendant elements the selector matches (here: by element name)
select(tree, i, selector) ==
    IF selector = "!" THEN Err
    ELSE Ok(SelectSeq(DescendantsFrom(tree, i, i + 1),
                      LAMBDA j : IsElementId(tree, j)
                                 /\ tree[j].value.name = selector))

Selectors == {"p", "!"}

\* what the closure of a method other than Element#text computes from the
\* locked tree
Closure(tree, m, i, selector) ==
    CASE m = "Document#select"        -> select(tree, RootId, selector)
      [] m = "Document#root_element"  -> Ok(<<RootId>>)
      [] m = "Element#select"         -> select(tree, i, selector)
      [] m = "Element#name"           -> Ok(<<tree[i].value.name>>)
      [] m = "Element#child_elements" ->
            Ok(SelectSeq(Children(tree, i), LAMBDA j : IsElementId(tree, j)))
      [] OTHER                        -> Ok(<<>>)

Init ==
    /\ html \in {<<Node(ElementNode(name), 0)>> : name \in RootNames}
    /\ document = "parsing"
    /\ mutex = NoOwner
    /\ pc = [t \in Threads |-> "idle"]
    /\ method = [t \in Threads |-> ""]
    /\ id = [t \in Threads |-> 0]
    /\ item_iter = [t \in Threads |-> <<>>]
    /\ max = [t \in Threads |-> 0]
    /\ output = [t \in Threads |-> <<>>]
    /\ result = [t \in Threads |-> NoResult]

threadVars == <<mutex, pc, method, id, item_iter, max, output, result>>

\* the parser appends one node to an open element: every tree of up to
\* `nodes` nodes under a root other than <html>
ParseNode(nodes) ==
    /\ document = "parsing"
    /\ html[1].value.name # "html"
    /\ Len(html) < nodes
    /\ \E v \in NodeValues, q \in OpenElements(html) :
          html' = Append(html, Node(v, q))
    /\ UNCHANGED <<document, threadVars>>

\* the parser appends one block to the <html> root of a fragment: every
\* fragment of up to `blocks` blocks
ParseBlock(blocks) ==
    /\ document = "parsing"
    /\ html[1].value.name = "html"
    /\ Len(Children(html, 1)) < blocks
    /\ \E b \in Blocks : html' = AppendBlock(html, b)
    /\ UNCHANGED <<document, threadVars>>

\* Document::new: the parsed Html goes behind Arc<Mutex<..>>
NewDocument ==
    /\ document = "parsing"
    /\ document' = "shared"
    /\ UNCHANGED <<html, threadVars>>

\* Ruby calls method m on the Document, or on the Element handle of node i
Call(t, m, i) ==
    /\ document = "shared"
    /\ pc[t] = "idle"
    /\ pc' = [pc EXCEPT ![t] = "lock"]
    /\ method' = [method EXCEPT ![t] = m]
    /\ id' = [id EXCEPT ![t] = i]
    /\ UNCHANGED <<html, document, mutex, item_iter, max, output, result>>

\* mutant of MutexFree: lock() does not wait for the holder
MutexFreeAlways == TRUE

\* Mutex::lock in with_locked_html / with_element_ref: blocks while held
MutexFree == mutex = NoOwner

Lock(t) ==
    /\ pc[t] = "lock"
    /\ MutexFree
    /\ mutex' = t
    /\ pc' = [pc EXCEPT ![t] = "locked"]
    /\ UNCHANGED <<html, document, method, id, item_iter, max, output, result>>

\* Element#has_class? scans its arguments before it locks: with bad arguments
\* it returns the error without touching the mutex or the tree
RejectArgs(t) ==
    /\ pc[t] = "lock"
    /\ method[t] = "Element#has_class?"
    /\ result' = [result EXCEPT ![t] = Err]
    /\ pc' = [pc EXCEPT ![t] = "returned"]
    /\ UNCHANGED <<html, document, mutex, method, id, item_iter, max, output>>

\* dropping the MutexGuard when with_locked_html / with_element_ref returns
Unlocked(t) == NoOwner

\* the closure of every method but Element#text, and the return
RunClosure(t) ==
    /\ pc[t] = "locked"
    /\ method[t] # "Element#text"
    /\ \E selector \in Selectors :
          result' = [result EXCEPT
                        ![t] = Closure(html, method[t], id[t], selector)]
    /\ mutex' = Unlocked(t)
    /\ pc' = [pc EXCEPT ![t] = "returned"]
    /\ UNCHANGED <<html, document, method, id, item_iter, max, output>>

\* Element#text: html_to_plain up to its outer while
EnterText(t) ==
    /\ pc[t] = "locked"
    /\ method[t] = "Element#text"
    /\ LET f == EnterFold(html, id[t])
       IN  /\ item_iter' = [item_iter EXCEPT ![t] = f.item_iter]
           /\ max' = [max EXCEPT ![t] = f.max]
           /\ output' = [output EXCEPT ![t] = f.output]
           /\ pc' = [pc EXCEPT ![t] = f.at]
    /\ UNCHANGED <<html, document, mutex, method, id, result>>

\* one step of html_to_plain's loops; when the outer while ends, the
\* function returns output and with_element_ref drops the guard
Fold(t) ==
    /\ pc[t] \in {"loop", "merge"}
    /\ LET f == FoldStep(Frame(pc[t], item_iter[t], max[t], output[t]))
       IN  /\ item_iter' = [item_iter EXCEPT ![t] = f.item_iter]
           /\ max' = [max EXCEPT ![t] = f.max]
           /\ IF f.at = "end"
              THEN /\ result' = [result EXCEPT ![t] = Ok(f.output)]
                   /\ output' = [output EXCEPT ![t] = <<>>]
                   /\ mutex' = Unlocked(t)
                   /\ pc' = [pc EXCEPT ![t] = "returned"]
              ELSE /\ output' = [output EXCEPT ![t] = f.output]
                   /\ pc' = [pc EXCEPT ![t] = f.at]
                   /\ UNCHANGED <<mutex, result>>
    /\ UNCHANGED <<html, document, method, id>>

\* Ruby is done with the returned value; the thread may call again
Drop(t) ==
    /\ pc[t] = "returned"
    /\ pc' = [pc EXCEPT ![t] = "idle"]
    /\ method' = [method EXCEPT ![t] = ""]
    /\ id' = [id EXCEPT ![t] = 0]
    /\ result' = [result EXCEPT ![t] = NoResult]
    /\ UNCHANGED <<html, document, mutex, item_iter, max, output>>

(***************************************************************************)
(* Spec: one caller extracts the text of the root element of a document.   *)
(***************************************************************************)
Caller == "t1"

Next ==
    \/ ParseNode(MaxNodes)
    \/ ParseBlock(MaxSiblings)
    \/ NewDocument
    \/ Call(Caller, "Element#text", RootId)
    \/ Lock(Caller)
    \/ EnterText(Caller)
    \/ Fold(Caller)

Spec == Init /\ [][Next]_vars

\* FairSpec: the same call, on smaller trees; a thread inside html_to_plain
\* keeps running, so every step of its loops is eventually taken
FairNext ==
    \/ ParseNode(MaxFairNodes)
    \/ ParseBlock(MaxSiblings)
    \/ NewDocument
    \/ Call(Caller, "Element#text", RootId)
    \/ Lock(Caller)
    \/ EnterText(Caller)
    \/ Fold(Caller)

FairSpec == Init /\ [][FairNext]_vars /\ WF_vars(Fold(Caller))

(***************************************************************************)
(* LockSpec: the threads share one document and call any method on it or   *)
(* on a handle of any of its elements, again and again.                    *)
(***************************************************************************)
ThreadNext(t) ==
    \/ \E m \in DocumentMethods : Call(t, m, 0)
    \/ \E m \in ElementMethods, i \in ElementIds(html) : Call(t, m, i)
    \/ RejectArgs(t)
    \/ Lock(t)
    \/ RunClosure(t)
    \/ EnterText(t)
    \/ Fold(t)
    \/ Drop(t)

NextLock ==
    \/ ParseBlock(MaxSharedBlocks)
    \/ NewDocument
    \/ \E t \in Threads : ThreadNext(t)

LockSpec == Init /\ [][NextLock]_vars

(***************************************************************************)
(* Properties. Under Spec the caller's only method is Element#text on the  *)
(* root element, so a returned call carries html_to_plain's result.        *)
(***************************************************************************)
Returned == pc[Caller] = "returned"
Out      == result[Caller].value

\* the content items of the tree, as html_to_plain classifies them
Items == ItemIter(html, RootId)

\* a text with at least one character that is not whitespace
HasNonWs(text) == \E k \in DOMAIN text : ~IsWhitespace(text[k])

\* a text node that is not whitespace-only
IsKeptText(tree, j) ==
    tree[j].value.type = "Text" /\ HasNonWs(tree[j].value.text)

\* a text node that is whitespace-only or empty
IsWsText(tree, j) ==
    tree[j].value.type = "Text" /\ ~HasNonWs(tree[j].value.text)

\* an element that is neither <br> nor block-level
IsInline(tree, j) ==
    /\ tree[j].value.type = "Element"
    /\ tree[j].value.name \notin BLOCK_LEVEL_ELEMENTS_SET \cup {"br"}

\* a block-level element
IsBlock(tree, j) ==
    /\ tree[j].value.type = "Element"
    /\ tree[j].value.name \in BLOCK_LEVEL_ELEMENTS_SET

\* the texts of the tree's text nodes that are not whitespace-only, in
\* document order
RECURSIVE KeptTextsFrom(_, _)
KeptTextsFrom(tree, j) ==
    IF j > Len(tree) THEN <<>>
    ELSE (IF IsKeptText(tree, j) THEN <<tree[j].value.text>> ELSE <<>>)
         \o KeptTextsFrom(tree, j + 1)

KeptTexts(tree) == KeptTextsFrom(tree, 1)

RECURSIVE Concat(_)
Concat(texts) ==
    IF texts = <<>> THEN <<>> ELSE Head(texts) \o Concat(Tail(texts))

\* texts[1], gaps[1] newlines, texts[2], ..., texts[n]
RECURSIVE Interleave(_, _)
Interleave(texts, gaps) ==
    IF texts = <<>> THEN <<>>
    ELSE IF Len(texts) = 1 THEN texts[1]
    ELSE texts[1] \o Repeat(NL, gaps[1])
         \o Interleave(Tail(texts), Tail(gaps))

\* the number of Newlines items at the head of a sequence of items
RECURSIVE LeadingBreaks(_)
LeadingBreaks(items) ==
    IF items # <<>> /\ Head(items).kind = "Newlines"
    THEN 1 + LeadingBreaks(Tail(items))
    ELSE 0

\* the largest count of a non-empty sequence of Newlines items
RECURSIVE LargestCount(_)
LargestCount(run) ==
    IF Len(run) = 1 THEN run[1].count
    ELSE LET m == LargestCount(Tail(run))
         IN  IF run[1].count > m THEN run[1].count ELSE m

\* what the claim C1 prescribes for a sequence of items: every text, and for
\* every maximal run of Newlines with a text before it and a text after it,
\* as many newlines as the largest count of the run
RECURSIVE Prescribed(_, _)
Prescribed(items, textBefore) ==
    IF items = <<>> THEN <<>>
    ELSE IF Head(items).kind = "Text"
    THEN Head(items).text \o Prescribed(Tail(items), TRUE)
    ELSE LET n    == LeadingBreaks(items)
             run  == SubSeq(items, 1, n)
             rest == SubSeq(items, n + 1, Len(items))
         IN  (IF textBefore /\ rest # <<>>
              THEN Repeat(NL, LargestCount(run)) ELSE <<>>)
             \o Prescribed(rest, textBefore)

\* C1: every maximal run of Break items between two text runs contributes
\* exactly as many newlines as the largest count in the run (not the sum, and
\* once per run), at the place of the run.
C1_RunContributesMax == Returned => Out = Prescribed(Items, FALSE)

\* a run Break(1), Break(2) between two texts gave two newlines
C1_Witness ==
    /\ Returned
    /\ Len(Items) = 5
    /\ Items[1].kind = "Text" /\ Items[4].kind = "Text"
    /\ Items[2] = Newlines(1) /\ Items[3] = Newlines(2)
    /\ Out = Items[1].text \o <<NL, NL>> \o Items[4].text

\* C6 as claimed: a tree of a root and one text node yields that text.
C6_Original ==
    (Returned /\ Len(html) = 2 /\ html[2].value.type = "Text")
        => Out = html[2].value.text

\* C6 as amended: a tree of a root and one text node yields that text when
\* the text is not whitespace-only, and the empty string when it is.
C6_SingleText ==
    (Returned /\ Len(html) = 2 /\ html[2].value.type = "Text")
        => Out = IF HasNonWs(html[2].value.text)
                 THEN html[2].value.text ELSE <<>>

\* a lone text with whitespace at both ends came back unchanged
C6_Witness ==
    /\ Returned
    /\ Len(html) = 2
    /\ html[2].value = TextNode(<<" ", "b", "\n">>)
    /\ Out = <<" ", "b", "\n">>

\* C8: the output is the texts that are not whitespace-only, each once,
\* unmodified and in document order, with nothing but runs of newlines
\* between them.
C8_TextVerbatim ==
    Returned =>
        LET ts == KeptTexts(html)
        IN  \E gaps \in [1..(Len(ts) - 1) -> 0..2] : Out = Interleave(ts, gaps)

\* three texts, two of them distinct, with newlines put between them
C8_Witness ==
    /\ Returned
    /\ Len(KeptTexts(html)) = 3
    /\ KeptTexts(html)[1] # KeptTexts(html)[2]
    /\ Len(Out) > Len(Concat(KeptTexts(html)))

\* the tree without node k, whose children become children of k's parent
SpliceOut(tree, k) ==
    [j \in 1..(Len(tree) - 1) |->
        LET n == tree[IF j < k THEN j ELSE j + 1]
        IN  Node(n.value,
                 IF n.parent = k THEN tree[k].parent
                 ELSE IF n.parent > k THEN n.parent - 1
                 ELSE n.parent)]

\* the tree with another element as its root
WithRoot(tree, name) == [tree EXCEPT ![1] = Node(ElementNode(name), 0)]

\* node 2 is a block element holding everything below the root
RootWraps(tree) ==
    /\ Len(tree) >= 2
    /\ IsBlock(tree, 2)
    /\ \A j \in 3..Len(tree) : tree[j].parent # 1

\* the wrappers right below the root spliced out, k deep
RECURSIVE Unwrap(_, _)
Unwrap(tree, k) ==
    IF k = 0 \/ ~RootWraps(tree) THEN tree ELSE Unwrap(SpliceOut(tree, 2), k - 1)

RECURSIVE WrapDepth(_)
WrapDepth(tree) ==
    IF RootWraps(tree) THEN 1 + WrapDepth(SpliceOut(tree, 2)) ELSE 0

IsPrefix(a, b) == Len(a) <= Len(b) /\ SubSeq(b, 1, Len(a)) = a
IsSuffix(a, b) == Len(a) <= Len(b) /\ SubSeq(b, Len(b) - Len(a) + 1, Len(b)) = a

\* C2: block wrappers add no newline before or after the content: with the
\* content of the root wrapped in k >= 1 nested block elements the result is
\* that of the content alone, a block element as the root gives the result of
\* an inline root, and the result begins with the first text and ends with the
\* last one (and is empty without any).
C2_WrappersAddNothing ==
    Returned =>
        /\ \A k \in 1..WrapDepth(html) :
              Out = html_to_plain(Unwrap(html, k), RootId)
        /\ IsBlock(html, RootId) => Out = html_to_plain(WithRoot(html, "html"), RootId)
        /\ LET ts == KeptTexts(html)
           IN  IF ts = <<>> THEN Out = <<>>
               ELSE IsPrefix(ts[1], Out) /\ IsSuffix(ts[Len(ts)], Out)

\* a <p> in a <div> in a block root, around one text, gave the text
C2_Witness ==
    /\ Returned
    /\ WrapDepth(html) = 2
    /\ IsBlock(html, RootId)
    /\ html[3].value.name = "p"
    /\ Len(html) = 4 /\ html[4].value.type = "Text"
    /\ Out = html[4].value.text

\* the children of the root are n >= 2 <p> elements of one text each
IsParagraphs(tree) ==
    LET ps == Children(tree, RootId)
    IN  /\ Len(ps) >= 2
        /\ Len(tree) = 1 + 2 * Len(ps)
        /\ \A k \in DOMAIN ps :
              /\ tree[ps[k]].value = ElementNode("p")
              /\ LET cs == Children(tree, ps[k])
                 IN  Len(cs) = 1 /\ IsKeptText(tree, cs[1])

RECURSIVE Join(_, _)
Join(texts, sep) ==
    IF Len(texts) <= 1 THEN Concat(texts)
    ELSE texts[1] \o sep \o Join(Tail(texts), sep)

\* C3: <p> is Break(2) on Enter and on Exit, and n >= 2 sibling <p> elements
\* of one text each are joined by two newlines (not four), with nothing
\* before the first text or after the last.
C3_ParagraphsJoinedByTwo ==
    /\ \A j \in ElementIds(html) :
          html[j].value.name = "p" =>
              /\ Classify("Open", html[j].value) = Newlines(2)
              /\ Classify("Close", html[j].value) = Newlines(2)
    /\ (Returned /\ IsParagraphs(html)) =>
          Out = Join(KeptTexts(html), <<NL, NL>>)

\* three paragraphs were joined by two newlines each
C3_Witness ==
    /\ Returned
    /\ IsParagraphs(html)
    /\ Len(Children(html, RootId)) = 3
    /\ Out = Join(KeptTexts(html), <<NL, NL>>)
    /\ Len(Out) = Len(Concat(KeptTexts(html))) + 4

\* the children of the root are a text, a <br> and a text
IsBrBetweenTexts(tree) ==
    /\ Len(tree) = 4
    /\ \A j \in 2..4 : tree[j].parent = 1
    /\ IsKeptText(tree, 2)
    /\ tree[3].value = ElementNode("br")
    /\ IsKeptText(tree, 4)

\* C4: <br> is Break(1) on Enter and nothing on Exit, and two texts with only
\* a <br> between them come out with one newline between them.
C4_BrIsOneNewline ==
    /\ \A j \in ElementIds(html) :
          html[j].value.name = "br" =>
              /\ Classify("Open", html[j].value) = Newlines(1)
              /\ Classify("Close", html[j].value) = None
    /\ (Returned /\ IsBrBetweenTexts(html)) =>
          Out = html[2].value.text \o <<NL>> \o html[4].value.text

\* text, <br>, text under an inline root gave the texts with one newline
C4_Witness ==
    /\ Returned
    /\ IsBrBetweenTexts(html)
    /\ ~IsBlock(html, RootId)
    /\ Out = html[2].value.text \o <<NL>> \o html[4].value.text

\* the places, in the traversal, of the Open edges of the kept texts
KeptTextOpens(tree) ==
    LET edges == Traverse(tree, RootId)
    IN  SelectSeq([q \in 1..Len(edges) |-> q],
                  LAMBDA q : edges[q].edge = "Open" /\ IsKeptText(tree, edges[q].node))

\* between the k-th kept text and the next lie edges of inline elements only
InlineOnlyBetween(tree, k) ==
    LET edges == Traverse(tree, RootId)
        opens == KeptTextOpens(tree)
    IN  \A q \in (opens[k] + 2)..(opens[k + 1] - 1) : IsInline(tree, edges[q].node)

\* C5: the Enter and Exit of an inline element (neither <br> nor block-level)
\* give no item, and texts with only inline element boundaries between them
\* come out next to each other.
C5_InlineAddsNothing ==
    /\ \A j \in ElementIds(html) :
          IsInline(html, j) =>
              /\ Classify("Open", html[j].value) = None
              /\ Classify("Close", html[j].value) = None
    /\ Returned =>
          LET ts == KeptTexts(html)
          IN  \E gaps \in [1..(Len(ts) - 1) -> 0..2] :
                 /\ Out = Interleave(ts, gaps)
                 /\ \A k \in DOMAIN gaps :
                       InlineOnlyBetween(html, k) => gaps[k] = 0

\* a text, and a text in an <em>, inside a <p>, gave the two texts together
C5_Witness ==
    /\ Returned
    /\ Len(html) = 4
    /\ html[1].value.name = "p"
    /\ IsKeptText(html, 2) /\ html[2].parent = 1
    /\ html[3] = Node(ElementNode("em"), 1)
    /\ IsKeptText(html, 4) /\ html[4].parent = 3
    /\ Out = html[2].value.text \o html[4].value.text

\* the tree without its whitespace-only and empty text nodes
RECURSIVE WithoutWsTexts(_)
WithoutWsTexts(tree) ==
    LET ws == {j \in DOMAIN tree : IsWsText(tree, j)}
    IN  IF ws = {} THEN tree
        ELSE WithoutWsTexts(SpliceOut(tree, CHOOSE j \in ws : \A i \in ws : j <= i))

\* C7: a whitespace-only or empty text node gives no item, and the result is
\* that of the tree without these nodes: they add no character, split no run
\* of Breaks and do not count as content at the boundaries.
C7_WhitespaceTextIgnored ==
    /\ \A j \in DOMAIN html :
          IsWsText(html, j) =>
              /\ Classify("Open", html[j].value) = None
              /\ Classify("Close", html[j].value) = None
    /\ Returned => Out = html_to_plain(WithoutWsTexts(html), RootId)

\* <h1>A</h1>, a whitespace text, <p>B</p>: the Breaks 1 and 2 merged to 2
C7_Witness ==
    /\ Returned
    /\ Len(html) = 6
    /\ html[2] = Node(ElementNode("h1"), 1) /\ IsKeptText(html, 3)
    /\ html[4] = Node(TextNode(<<" ", "\n">>), 1)
    /\ html[5] = Node(ElementNode("p"), 1) /\ IsKeptText(html, 6)
    /\ Out = html[3].value.text \o <<NL, NL>> \o html[6].value.text

\* C9: html_to_plain is total: a call that has reached its loops returns;
\* each step of the loops leaves the iterator alone or takes its first item,
\* and at the return the iterator is used up and the result is a string,
\* empty when the tree has no text that is not whitespace-only.
C9_Total ==
    /\ (pc[Caller] \in {"loop", "merge"}) ~> Returned
    /\ [](Returned =>
            /\ result[Caller].tag = "ok"
            /\ item_iter[Caller] = <<>>
            /\ (KeptTexts(html) = <<>> => Out = <<>>))
    /\ [][pc[Caller] \in {"loop", "merge"} =>
            \/ item_iter'[Caller] = item_iter[Caller]
            \/ /\ item_iter[Caller] # <<>>
               /\ item_iter'[Caller] = Tail(item_iter[Caller])]_vars

\* a tree of Break elements only, with no text, gave the empty string
C9_Witness ==
    /\ Returned
    /\ Len(html) = MaxFairNodes
    /\ \A j \in DOMAIN html : html[j].value.type = "Element" /\ ~IsInline(html, j)
    /\ Len(Items) >= MaxFairNodes
    /\ Out = <<>>

\* a thread is inside with_locked_html / with_element_ref, reading the tree
Holding(t) == pc[t] \in {"locked", "loop", "merge"}

\* C10: the mutex serializes the operations: a thread reads the tree only
\* while it owns the mutex, owns it from the lock to the return of the
\* operation, never waits for a mutex it owns, and no two threads read at
\* the same time.
C10_Serialized ==
    /\ \A t \in Threads : Holding(t) <=> mutex = t
    /\ \A t \in Threads : pc[t] = "lock" => mutex # t
    /\ \A t, u \in Threads : (Holding(t) /\ Holding(u)) => t = u

\* one thread is inside html_to_plain's inner loop while the other waits
C10_Witness ==
    /\ pc["t1"] = "merge" /\ method["t1"] = "Element#text"
    /\ mutex = "t1"
    /\ pc["t2"] = "lock" /\ method["t2"] = "Element#select"

====
